---- MODULE Spec2Model ----
(***************************************************************************)
(* Personal Library Tracker: the books REST router, the Book and User      *)
(* models with their persistence hooks, the auth gates and the upload      *)
(* primitives, as a state machine over the document store and the uploads  *)
(* directory.  Every request occupies a slot and advances one step per     *)
(* await point of its handler.                                             *)
(***************************************************************************)
EXTENDS Integers, Sequences, FiniteSets, TLC

(***************************************************************************)
(* Bounds of the model                                                     *)
(***************************************************************************)
MaxBooks == 2      \* book records ever created (ids are never reused)
MaxFiles == 2      \* cover files ever uploaded (names are never reused)
MaxTicks == 2      \* clock readings after the initial one
MaxSlots == 2      \* request slots (requests that can be in flight)

(***************************************************************************)
(* Values: strings are sequences of characters, body values are tagged     *)
(***************************************************************************)
Undefined == [t |-> "undef"]
Null == [t |-> "null"]
S(chars) == [t |-> "str", s |-> chars]
N(n) == [t |-> "num", n |-> n]
A(items) == [t |-> "arr", a |-> items]
Oid(u) == [t |-> "oid", id |-> u]
D(ms) == [t |-> "date", ms |-> ms]

\* Request paths below the router's mount point
Lit(name) == [t |-> "lit", s |-> name]      \* a path segment that is no id
Id(i) == [t |-> "id", id |-> i]             \* the id of a document as a segment
Root == [t |-> "root"]                      \* the path '/'

Rep(n, c) == [i \in 1..n |-> c]

ToRead == <<"T", "o", " ", "R", "e", "a", "d">>
Reading == <<"R", "e", "a", "d", "i", "n", "g">>
Read == <<"R", "e", "a", "d">>
Statuses == {ToRead, Reading, Read}

Digits == <<"0", "1", "2", "3", "4", "5", "6", "7", "8", "9">>
IsDigit(c) == \E i \in 1..10 : Digits[i] = c
DigitVal(c) == (CHOOSE i \in 1..10 : Digits[i] = c) - 1

RECURSIVE TrimStart(_)
TrimStart(str) ==
  IF str # <<>> /\ Head(str) = " " THEN TrimStart(Tail(str)) ELSE str

RECURSIVE TrimEnd(_)
TrimEnd(str) ==
  IF str # <<>> /\ str[Len(str)] = " "
  THEN TrimEnd(SubSeq(str, 1, Len(str) - 1)) ELSE str

Trim(str) == TrimEnd(TrimStart(str))

RECURSIVE ParseDigits(_, _)
ParseDigits(str, acc) ==
  IF str = <<>> THEN acc
  ELSE ParseDigits(Tail(str), acc * 10 + DigitVal(Head(str)))

\* Joi's string-to-number conversion on the inputs used here: an optionally
\* padded run of decimal digits converts, anything else does not.
IsNumeric(str) ==
  /\ Trim(str) # <<>>
  /\ \A i \in 1..Len(Trim(str)) : IsDigit(Trim(str)[i])

(***************************************************************************)
(* Validation layer: bookValidationSchema and its rules                    *)
(***************************************************************************)
Ok(v) == [ok |-> TRUE, v |-> v]
Err(msg) == [ok |-> FALSE, msg |-> msg]

TitleMax == 200
AuthorMax == 100
PageCountMax == 50000
RatingMax == 5
TagMax == 30
TagsMax == 10

\* Joi.string().trim().min(1).max(limit): the value is trimmed first, an
\* empty result is rejected, then the length is checked.
JoiString(x, limit, label) ==
  IF x.t # "str" THEN Err(label \o " must be a string")
  ELSE IF Trim(x.s) = <<>> THEN Err(label \o " is not allowed to be empty")
  ELSE IF Len(Trim(x.s)) > limit THEN Err(label \o " length exceeds the limit")
  ELSE Ok(S(Trim(x.s)))

\* Joi.string().valid('To Read', 'Reading', 'Read'): exact match, no trim.
JoiStatus(x) ==
  IF x.t = "str" /\ x.s \in Statuses THEN Ok(x)
  ELSE Err("status must be one of [To Read, Reading, Read]")

\* Joi.number().integer().min(1).max(limit).allow(null), with conversion of
\* numeric strings.
JoiNumber(x, limit, label) ==
  IF x.t = "null" THEN Ok(x)
  ELSE IF x.t = "num" \/ (x.t = "str" /\ IsNumeric(x.s)) THEN
    LET n == IF x.t = "num" THEN x.n ELSE ParseDigits(Trim(x.s), 0)
    IN IF n < 1 THEN Err(label \o " must be greater than or equal to 1")
       ELSE IF n > limit THEN Err(label \o " must be less than or equal to the limit")
       ELSE Ok(N(n))
  ELSE Err(label \o " must be a number")

\* The tags rule without the cap on the number of items.
JoiTagsUncapped(x) ==
  IF x.t # "arr" THEN Err("tags must be an array")
  ELSE IF \E i \in 1..Len(x.a) : ~JoiString(x.a[i], TagMax, "tag").ok
    THEN Err("tags item is invalid")
  ELSE Ok(A([i \in 1..Len(x.a) |-> JoiString(x.a[i], TagMax, "tag").v]))

\* Joi.array().items(Joi.string().trim().max(30)).max(10)
JoiTags(x) ==
  IF x.t # "arr" THEN Err("tags must be an array")
  ELSE IF \E i \in 1..Len(x.a) : ~JoiString(x.a[i], TagMax, "tag").ok
    THEN Err("tags item is invalid")
  ELSE IF Len(x.a) > TagsMax THEN Err("tags must contain at most 10 items")
  ELSE Ok(A([i \in 1..Len(x.a) |-> JoiString(x.a[i], TagMax, "tag").v]))

IsbnMin == 10
IsbnMax == 17

\* Joi.string().trim().pattern(/^[0-9-]{10,17}$/).allow('')
JoiIsbn(x) ==
  IF x.t # "str" THEN Err("isbn must be a string")
  ELSE IF Trim(x.s) = <<>> THEN Ok(S(<<>>))
  ELSE IF /\ Len(Trim(x.s)) \in IsbnMin..IsbnMax
          /\ \A i \in 1..Len(Trim(x.s)) : IsDigit(Trim(x.s)[i]) \/ Trim(x.s)[i] = "-"
    THEN Ok(S(Trim(x.s)))
  ELSE Err("isbn fails to match the required pattern")

SchemaKeys == <<"title", "author", "status", "isbn", "pageCount", "rating", "tags">>
SchemaKeySet == {SchemaKeys[i] : i \in 1..Len(SchemaKeys)}

Has(body, k) == k \in DOMAIN body /\ body[k].t # "undef"

\* The rule of one key of bookValidationSchema applied to a present value.
Rule(k, x) ==
  CASE k = "title" -> JoiString(x, TitleMax, "title")
    [] k = "author" -> JoiString(x, AuthorMax, "author")
    [] k = "status" -> JoiStatus(x)
    [] k = "isbn" -> JoiIsbn(x)
    [] k = "pageCount" -> JoiNumber(x, PageCountMax, "pageCount")
    [] k = "rating" -> JoiNumber(x, RatingMax, "rating")
    [] k = "tags" -> JoiTags(x)

\* The outcome of one key: required keys fail when absent, optional keys
\* are skipped when absent.
KeyResult(body, k) ==
  IF Has(body, k) THEN Rule(k, body[k])
  ELSE IF k \in {"title", "author"} THEN Err(k \o " is required")
  ELSE Ok(Undefined)

FailingKeys(body) == {i \in 1..Len(SchemaKeys) : ~KeyResult(body, SchemaKeys[i]).ok}

FirstFailing(body) ==
  CHOOSE i \in FailingKeys(body) : \A j \in FailingKeys(body) : i <= j

\* Validation that lets the keys outside the schema through (no stripUnknown).
validateKeepUnknown(body) ==
  IF FailingKeys(body) # {}
  THEN [error |-> TRUE,
        details |-> <<KeyResult(body, SchemaKeys[FirstFailing(body)]).msg>>,
        value |-> <<>>]
  ELSE [error |-> FALSE,
        details |-> <<>>,
        value |-> [k \in DOMAIN body \cup {"status"} |->
                     IF k \in SchemaKeySet
                     THEN (IF Has(body, k) THEN KeyResult(body, k).v ELSE S(ToRead))
                     ELSE body[k]]]

\* Validation whose status default is another literal.
validateDefaultReading(body) ==
  IF FailingKeys(body) # {}
  THEN [error |-> TRUE,
        details |-> <<KeyResult(body, SchemaKeys[FirstFailing(body)]).msg>>,
        value |-> <<>>]
  ELSE [error |-> FALSE,
        details |-> <<>>,
        value |-> [k \in {q \in SchemaKeySet : Has(body, q)} \cup {"status"} |->
                     IF Has(body, k) THEN KeyResult(body, k).v ELSE S(Reading)]]

\* bookValidationSchema.validate(body, {allowUnknown: true, stripUnknown: true}):
\* the first failing key is reported; otherwise the value holds the schema
\* keys that were present, converted, and status with its default.
validate(body) ==
  IF FailingKeys(body) # {}
  THEN [error |-> TRUE,
        details |-> <<KeyResult(body, SchemaKeys[FirstFailing(body)]).msg>>,
        value |-> <<>>]
  ELSE [error |-> FALSE,
        details |-> <<>>,
        value |-> [k \in {q \in SchemaKeySet : Has(body, q)} \cup {"status"} |->
                     IF Has(body, k) THEN KeyResult(body, k).v ELSE S(ToRead)]]

(***************************************************************************)
(* Users, tokens and request inputs                                        *)
(***************************************************************************)
UserIds == {"u1", "u2"}     \* registered users
GhostId == "u3"             \* an id no stored user has
NoUser == "none"

NoHeader == [present |-> FALSE]
Header(prefix, token) == [present |-> TRUE, prefix |-> prefix, token |-> token]
EmptyToken == [kind |-> "empty"]
Token(kind, u) == [kind |-> kind, userId |-> u]
Bearer(u) == Header("Bearer ", Token("valid", u))

GoodHeaders == {Bearer(u) : u \in UserIds}
BadHeaders ==
  {NoHeader, Header("Basic ", Token("valid", "u1")), Header("Bearer ", EmptyToken),
   Header("Bearer ", Token("expired", "u1")), Header("Bearer ", Token("malformed", "u1")),
   Header("Bearer ", Token("notbefore", "u1")), Bearer(GhostId)}

MsPerDay == 1000 * 3600 * 24
TickMs == 14 * 3600 * 1000    \* one clock tick: 14 hours

Dune == <<"D", "u", "n", "e">>
Emma == <<"E", "m", "m", "a">>
Herbert == <<"H">>

BodyDefault == [title |-> S(<<" ">> \o Dune \o <<" ">>), author |-> S(Herbert)]
BodyReading == [title |-> S(Dune), author |-> S(Herbert), status |-> S(Reading)]
BodyRead == [title |-> S(Dune), author |-> S(Herbert), status |-> S(Read)]
BodyRated ==
  [title |-> S(Emma), author |-> S(Herbert), status |-> S(Read), rating |-> S(<<"5">>),
   pageCount |-> N(300), tags |-> A(<<S(<<"a">>), S(<<" ", "b">>)>>)]
\* A body that carries keys the schema does not declare.
BodyExtra ==
  [title |-> S(Dune), author |-> S(Herbert), status |-> S(ToRead),
   user |-> Oid("u2"), dateStarted |-> D(TickMs), dateFinished |-> D(TickMs),
   readingDuration |-> N(7)]
\* A finished book whose body says it was started three ticks after the
\* initial clock reading.
BodyAhead ==
  [title |-> S(Dune), author |-> S(Herbert), status |-> S(Read),
   dateStarted |-> D(3 * TickMs)]
BodyBadStatus ==
  [title |-> S(Dune), author |-> S(Herbert), status |-> S(<<"D", "o", "n", "e">>)]

\* A body that passes the request validation and fails the model's isbn
\* validator: ten hyphens.
BodyBadIsbn == [title |-> S(Dune), author |-> S(Herbert), isbn |-> S(Rep(IsbnMin, "-"))]
BodyIsbn == [title |-> S(Dune), author |-> S(Herbert), isbn |-> S(Rep(IsbnMin, "7"))]
BodyPages == [title |-> S(Emma), author |-> S(Herbert), pageCount |-> N(300)]
BodyStars == [title |-> S(Dune), author |-> S(Herbert), status |-> S(Reading), rating |-> S(<<"5">>)]

ValidBodies == {BodyDefault, BodyReading, BodyRead, BodyRated, BodyExtra}

InvalidBodies ==
  { [author |-> S(Herbert), status |-> S(Reading)],
    [title |-> S(Dune), status |-> S(Read)],
    [title |-> S(<<" ", " ">>), author |-> S(Herbert)],
    [title |-> S(Rep(TitleMax + 1, "x")), author |-> S(Herbert)],
    BodyBadStatus,
    [title |-> S(Dune), author |-> S(Herbert), pageCount |-> N(0)],
    [title |-> S(Dune), author |-> S(Herbert), pageCount |-> S(<<"5", "0", "0", "0", "1">>)],
    [title |-> S(Dune), author |-> S(Herbert), rating |-> N(RatingMax + 1)],
    [title |-> S(Dune), author |-> S(Herbert), tags |-> A(Rep(TagsMax + 1, S(<<"a">>)))],
    [title |-> S(Dune), author |-> S(Herbert), tags |-> A(<<S(Rep(TagMax + 1, "x"))>>)] }

Bodies == ValidBodies \cup InvalidBodies
EmptyBody == [k \in {} |-> Null]

(***************************************************************************)
(* State                                                                   *)
(***************************************************************************)
VARIABLES
  books,      \* the books collection: id -> document
  files,      \* names of the files in the uploads directory
  users,      \* the users collection: id -> document
  now,        \* the clock, in ticks
  nextBook,   \* the next fresh document id
  nextFile,   \* the next fresh upload name
  req,        \* slot -> the request it serves and the handler's position
  env,        \* what the clients of this run send
  page        \* the dashboard page of the browser client

vars == <<books, files, users, now, nextBook, nextFile, req, env, page>>

Slots == 1..MaxSlots

Date == now * TickMs

\* Passwords: a plaintext, and its salted one-way hash
Plain(p) == [t |-> "plain", p |-> p]
Hash(x, salt) == [t |-> "hash", of |-> x, salt |-> salt]
Salts == {1, 2}

ZeroStats == [totalBooks |-> 0, booksRead |-> 0, currentlyReading |-> 0, toRead |-> 0]

\* An attached file as the upload middleware sees it: whether its declared
\* content type starts with 'image/' and whether it exceeds limits.fileSize.
File(image, large) == [image |-> image, large |-> large]
GoodFile == File(TRUE, FALSE)
FileKinds == {File(i, l) : i \in BOOLEAN, l \in BOOLEAN}

\* The faults a run can meet: a store operation of a route handler rejects
\* ("db"), a step of the stats hook rejects ("stats"), a step of the cover
\* normalization throws ("sharp", "unlink", "rename").
Faults == {"db", "stats", "sharp", "unlink", "rename"}

IdleReq ==
  [pc |-> "idle", router |-> "", method |-> "", hdr |-> NoHeader, id |-> 0,
   body |-> EmptyBody, upload |-> FALSE, file |-> 0, user |-> NoUser,
   nextCalls |-> 0, resp |-> <<>>, existing |-> Undefined, doc |-> Undefined,
   udoc |-> Undefined, agg |-> Undefined,
   kind |-> GoodFile, fault |-> "none", hook |-> "none", route |-> "",
   seg |-> Undefined, query |-> "", lookups |-> 0, reply |-> Undefined]

Response(status, message, data) == [status |-> status, message |-> message, data |-> data]

InFlight == {s \in Slots : req[s].pc # "idle"}

\* What the clients send in the sequential runs of the validating router:
\* one user who creates, updates and deletes books of every status.
EnvBooks ==
  [apikey |-> TRUE, paths |-> {}, queries |-> {""}, faults |-> {}, filekinds |-> {GoodFile}, inflight |-> 1, routers |-> {"books"}, methods |-> {"POST", "GET", "PUT", "DELETE"},
   headers |-> {Bearer("u1")}, uploads |-> {FALSE}, ticks |-> 1,
   capacity |-> MaxBooks,
   bodies |-> {BodyDefault, BodyReading, BodyRead, BodyBadStatus}]

\* One user whose books are started and finished at different times, and
\* whose submissions carry dates of their own; the library stays one book
\* short of the store's bound.
EnvDates ==
  [apikey |-> TRUE, paths |-> {}, queries |-> {""}, faults |-> {}, filekinds |-> {GoodFile}, inflight |-> 1, routers |-> {"books"}, methods |-> {"POST", "GET", "PUT", "DELETE"},
   headers |-> {Bearer("u1")}, uploads |-> {FALSE}, ticks |-> MaxTicks,
   capacity |-> MaxBooks - 1,
   bodies |-> {BodyDefault, BodyReading, BodyRead, BodyExtra}]

\* Two users who send well-formed and malformed submissions, with and
\* without a cover file.
EnvAccess ==
  [apikey |-> TRUE, paths |-> {}, queries |-> {""}, faults |-> {}, filekinds |-> {GoodFile}, inflight |-> 1, routers |-> {"books"}, methods |-> {"POST", "GET", "PUT", "DELETE"},
   headers |-> GoodHeaders, uploads |-> BOOLEAN, ticks |-> 1,
   capacity |-> MaxBooks,
   bodies |-> {BodyDefault} \cup InvalidBodies]

\* One user whose creates and deletes overlap.
EnvConc ==
  [apikey |-> TRUE, paths |-> {}, queries |-> {""}, faults |-> {}, filekinds |-> {GoodFile}, inflight |-> MaxSlots, routers |-> {"books"}, methods |-> {"POST", "DELETE"},
   headers |-> {Bearer("u1")}, uploads |-> {FALSE}, ticks |-> 0,
   capacity |-> MaxBooks,
   bodies |-> {BodyDefault, BodyReading}]

\* Requests with every kind of Authorization header, to a private route
\* and to an admin-only route.
EnvGate ==
  [apikey |-> TRUE, paths |-> {}, queries |-> {""}, faults |-> {}, filekinds |-> {GoodFile}, inflight |-> MaxSlots, routers |-> {"books"}, methods |-> {"GET", "ADMIN"},
   headers |-> GoodHeaders \cup BadHeaders, uploads |-> {FALSE}, ticks |-> 0,
   capacity |-> MaxBooks,
   bodies |-> {BodyDefault}]

\* Two users of the earlier version of the router.
EnvLegacy ==
  [apikey |-> TRUE, paths |-> {}, queries |-> {""}, faults |-> {}, filekinds |-> {GoodFile}, inflight |-> 1, routers |-> {"legacy"}, methods |-> {"POST", "GET", "PUT", "DELETE"},
   headers |-> GoodHeaders, uploads |-> {FALSE}, ticks |-> 1,
   capacity |-> MaxBooks,
   bodies |-> {BodyDefault, BodyReading, BodyExtra, BodyAhead}]

\* One user whose submissions carry cover files: well-formed ones, ones the
\* request validation rejects and ones only the model's validators reject,
\* while store operations and the steps of the cover normalization can fail.
EnvUpload ==
  [apikey |-> TRUE, paths |-> {}, queries |-> {""},
   faults |-> {"db", "sharp", "unlink", "rename"}, filekinds |-> FileKinds,
   inflight |-> 1, routers |-> {"books"}, methods |-> {"POST", "GET", "PUT", "DELETE"},
   headers |-> {Bearer("u1")}, uploads |-> BOOLEAN, ticks |-> 1,
   capacity |-> MaxBooks - 1,
   bodies |-> {BodyDefault, BodyBadIsbn, BodyBadStatus}]

\* Clients with and without a token who GET the paths of the router, with
\* and without a search query, while one user adds books; the search key is
\* configured or not.
EnvRoutes(apikey) ==
  [apikey |-> apikey,
   paths |-> {Root, Lit("search-external"), Lit("stats"), Lit("genres"), Lit("authors")}
               \cup {Id(i) : i \in 1..MaxBooks},
   queries |-> {"", "dune"},
   faults |-> {}, filekinds |-> {GoodFile},
   inflight |-> 1, routers |-> {"books"}, methods |-> {"POST"},
   headers |-> {NoHeader, Bearer("u1")}, uploads |-> {FALSE}, ticks |-> 0,
   capacity |-> MaxBooks,
   bodies |-> {BodyDefault, BodyPages}]

\* One user whose updates of the one book they add overlap; some set the
\* page count, some the rating, and one is refused by the model's validators.
EnvEdits ==
  [apikey |-> TRUE, paths |-> {}, queries |-> {""}, faults |-> {}, filekinds |-> {GoodFile},
   inflight |-> 2, routers |-> {"books"}, methods |-> {"POST", "PUT"},
   headers |-> {Bearer("u1")}, uploads |-> {FALSE}, ticks |-> 0,
   capacity |-> 1,
   bodies |-> {BodyPages, BodyStars, BodyBadIsbn}]

\* One user who adds and deletes books while steps of the stats hook can
\* reject and the user's record can disappear from the store.
EnvHooks ==
  [apikey |-> TRUE, paths |-> {}, queries |-> {""}, faults |-> {"stats"},
   filekinds |-> {GoodFile},
   inflight |-> 2, routers |-> {"books"}, methods |-> {"POST", "DELETE"},
   headers |-> {Bearer("u1")}, uploads |-> {FALSE}, ticks |-> 0,
   capacity |-> MaxBooks - 1,
   bodies |-> {BodyRead}]

\* One user who adds books with covers and replaces the covers, one request
\* at a time, while store operations can reject and one body is refused by
\* the model's validators.
EnvCovers ==
  [apikey |-> TRUE, paths |-> {}, queries |-> {""}, faults |-> {"db"},
   filekinds |-> {GoodFile},
   inflight |-> 1, routers |-> {"books"}, methods |-> {"POST", "GET", "PUT", "DELETE"},
   headers |-> {Bearer("u1")}, uploads |-> BOOLEAN, ticks |-> 1,
   capacity |-> MaxBooks - 1,
   bodies |-> {BodyDefault, BodyBadIsbn}]

\* One user whose updates with new covers and deletes of the one book they
\* add overlap.
EnvSwap ==
  [apikey |-> TRUE, paths |-> {}, queries |-> {""}, faults |-> {},
   filekinds |-> {GoodFile},
   inflight |-> 2, routers |-> {"books"}, methods |-> {"POST", "PUT", "DELETE"},
   headers |-> {Bearer("u1")}, uploads |-> BOOLEAN, ticks |-> 0,
   capacity |-> 1,
   bodies |-> {BodyDefault}]

\* One user whose requests all come from the book form of the dashboard.
EnvForm ==
  [apikey |-> TRUE, paths |-> {}, queries |-> {""}, faults |-> {},
   filekinds |-> {GoodFile},
   inflight |-> 1, routers |-> {"books"}, methods |-> {"POST", "PUT", "DELETE"},
   headers |-> {Bearer("u1")}, uploads |-> {FALSE}, ticks |-> 0,
   capacity |-> MaxBooks - 1,
   bodies |-> {}]

\* DashboardPage before its first render: useState(true) for loading,
\* useState(false) for openForm, useState(null) for editingBook; BookForm is
\* not mounted while the page shows the spinner.
NewPage ==
  [loading |-> TRUE, books |-> [i \in {} |-> Undefined], openForm |-> FALSE,
   editingBook |-> Null, formData |-> Undefined, touched |-> FALSE,
   error |-> Null]

Fresh ==
  /\ books = [i \in {} |-> Undefined]
  /\ files = {}
  /\ users = [u \in UserIds |->
                [username |-> u, email |-> u \o "@x.com",
                 password |-> Hash(Plain("secret1"), 1), stats |-> ZeroStats]]
  /\ now = 0
  /\ nextBook = 1
  /\ nextFile = 1
  /\ req = [s \in Slots |-> IdleReq]
  /\ page = NewPage

Init == Fresh /\ env = EnvBooks
InitDates == Fresh /\ env = EnvDates
InitAccess == Fresh /\ env = EnvAccess
InitConc == Fresh /\ env = EnvConc
InitGate == Fresh /\ env = EnvGate
InitLegacy == Fresh /\ env = EnvLegacy
InitUpload == Fresh /\ env = EnvUpload
InitHooks == Fresh /\ env = EnvHooks
InitEdits == Fresh /\ env = EnvEdits
InitCovers == Fresh /\ env = EnvCovers
InitSwap == Fresh /\ env = EnvSwap
InitForm == Fresh /\ env = EnvForm
InitRoutes == Fresh /\ env \in {EnvRoutes(apikey) : apikey \in BOOLEAN}

(***************************************************************************)
(* Auth gates (middleware/auth.js)                                         *)
(***************************************************************************)
Unauthorized(message) ==
  [resp |-> <<Response(401, message, Undefined)>>, user |-> NoUser, next |-> 0]

\* A gate that trusts the token and skips the check that the user exists.
authNoLookup(hdr, lookupThrows) ==
  IF ~hdr.present \/ hdr.prefix # "Bearer "
    THEN Unauthorized("No token provided, authorization denied")
  ELSE IF hdr.token.kind = "empty"
    THEN Unauthorized("No token provided, authorization denied")
  ELSE IF hdr.token.kind = "expired" THEN Unauthorized("Token has expired")
  ELSE IF hdr.token.kind = "malformed" THEN Unauthorized("Invalid token")
  ELSE IF hdr.token.kind # "valid" THEN Unauthorized("Token verification failed")
  ELSE IF lookupThrows THEN Unauthorized("Token verification failed")
  ELSE [resp |-> <<>>, user |-> hdr.token.userId, next |-> 1]

\* The required gate: the responses it sends, the user it attaches and the
\* number of times it calls next.  lookupThrows: User.findById rejects.
auth(hdr, lookupThrows) ==
  IF ~hdr.present \/ hdr.prefix # "Bearer "
    THEN Unauthorized("No token provided, authorization denied")
  ELSE IF hdr.token.kind = "empty"
    THEN Unauthorized("No token provided, authorization denied")
  ELSE IF hdr.token.kind = "expired" THEN Unauthorized("Token has expired")
  ELSE IF hdr.token.kind = "malformed" THEN Unauthorized("Invalid token")
  ELSE IF hdr.token.kind # "valid" THEN Unauthorized("Token verification failed")
  ELSE IF lookupThrows THEN Unauthorized("Token verification failed")
  ELSE IF hdr.token.userId \notin DOMAIN users
    THEN Unauthorized("User not found, authorization denied")
  ELSE [resp |-> <<>>, user |-> hdr.token.userId, next |-> 1]

\* userSchema declares no isAdmin path, so the property read on a user
\* document is undefined.
isAdmin(u) == FALSE

\* The admin gate: runs auth with a no-op next, then reads req.user.isAdmin;
\* the read throws when no user was attached and the catch answers 500.
adminAuth(hdr, lookupThrows) ==
  LET a == auth(hdr, lookupThrows) IN
  IF a.user = NoUser
    THEN [resp |-> a.resp \o <<Response(500, "Server error in admin authentication", Undefined)>>,
          user |-> NoUser, next |-> 0]
  ELSE IF ~isAdmin(a.user)
    THEN [resp |-> a.resp \o <<Response(403, "Admin access required", Undefined)>>,
          user |-> a.user, next |-> 0]
  ELSE [resp |-> a.resp, user |-> a.user, next |-> 1]

(***************************************************************************)
(* Book model (schema, casting, validators, pre-save hook)                 *)
(***************************************************************************)
DocKeys ==
  {"user", "title", "author", "status", "isbn", "pageCount", "rating", "tags",
   "coverImage", "dateStarted", "dateFinished", "readingDuration"}

Cover(f) == [t |-> "upload", f |-> f]     \* the path '/uploads/<name f>'

\* Object spread: the keys of b override those of a.
Merge(a, b) ==
  [k \in DOMAIN a \cup DOMAIN b |-> IF k \in DOMAIN b THEN b[k] ELSE a[k]]

\* Schema setters and casting of one path.
Cast(k, x) ==
  IF k \in {"title", "author", "isbn"} /\ x.t = "str" THEN S(Trim(x.s))
  ELSE IF k \in {"pageCount", "rating"} /\ x.t = "str" /\ IsNumeric(x.s)
    THEN N(ParseDigits(Trim(x.s), 0))
  ELSE IF k = "tags" /\ x.t = "arr"
    THEN A([i \in 1..Len(x.a) |-> IF x.a[i].t = "str" THEN S(Trim(x.a[i].s)) ELSE x.a[i]])
  ELSE x

\* Schema defaults of a new document.
Default(k) ==
  IF k = "status" THEN S(ToRead)
  ELSE IF k = "tags" THEN A(<<>>)
  ELSE IF k = "coverImage" THEN Null
  ELSE Undefined

\* new Book(obj): schema paths are cast, other keys are dropped.
NewBook(obj) ==
  [k \in DocKeys |-> IF Has(obj, k) THEN Cast(k, obj[k]) ELSE Default(k)]

\* cleanISBN = v.replace(/-/g, '')
RECURSIVE CleanIsbn(_)
CleanIsbn(str) ==
  IF str = <<>> THEN <<>>
  ELSE IF Head(str) = "-" THEN CleanIsbn(Tail(str))
  ELSE <<Head(str)>> \o CleanIsbn(Tail(str))

\* The isbn validator: empty passes, otherwise 10 or 13 digits once the
\* hyphens are removed.
IsbnValid(v) ==
  \/ v = <<>>
  \/ /\ Len(CleanIsbn(v)) \in {10, 13}
     /\ \A i \in 1..Len(CleanIsbn(v)) : IsDigit(CleanIsbn(v)[i])

\* The schema validators of one path on a value.
PathValid(k, x) ==
  CASE k = "title" -> x.t = "str" /\ x.s # <<>> /\ Len(x.s) <= TitleMax
    [] k = "author" -> x.t = "str" /\ x.s # <<>> /\ Len(x.s) <= AuthorMax
    [] k = "status" -> x.t = "str" /\ x.s \in Statuses
    [] k = "isbn" -> x.t = "undef" \/ (x.t = "str" /\ IsbnValid(x.s))
    [] k = "pageCount" -> x.t \in {"undef", "null"} \/ (x.t = "num" /\ x.n >= 1 /\ x.n <= PageCountMax)
    [] k = "rating" -> x.t \in {"undef", "null"} \/ (x.t = "num" /\ x.n >= 1 /\ x.n <= RatingMax)
    [] k = "tags" -> x.t = "arr" /\ \A i \in 1..Len(x.a) : x.a[i].t = "str" /\ Len(x.a[i].s) <= TagMax
    [] k = "user" -> x.t = "oid"
    [] k = "readingDuration" -> x.t = "undef" \/ (x.t = "num" /\ x.n >= 0)
    [] OTHER -> TRUE

DocValid(doc) == \A k \in DOMAIN doc : PathValid(k, doc[k])

CeilDiv(a, b) == IF a >= 0 THEN (a + b - 1) \div b ELSE -((-a) \div b)

\* bookSchema.pre('save'): the reading dates are stamped when status is
\* modified.
preSave(doc, statusModified, t) ==
  IF ~statusModified THEN doc
  ELSE
    LET d1 == IF doc.status = S(Reading) /\ doc.dateStarted.t = "undef"
              THEN [doc EXCEPT !.dateStarted = D(t)] ELSE doc
    IN IF d1.status = S(Read) /\ d1.dateFinished.t = "undef"
       THEN IF d1.dateStarted.t # "undef"
            THEN [d1 EXCEPT !.dateFinished = D(t),
                            !.readingDuration = N(CeilDiv(t - d1.dateStarted.ms, MsPerDay))]
            ELSE [d1 EXCEPT !.dateFinished = D(t)]
       ELSE d1

\* A lookup by id alone, without the owner in the filter.
findOneAnyUser(id, u) ==
  IF id \in DOMAIN books THEN books[id] ELSE Null

\* Book.findOne({_id, user})
findOne(id, u) ==
  IF id \in DOMAIN books /\ books[id].user = Oid(u) THEN books[id] ELSE Null

\* A removal that empties the uploads directory.
deleteAllUploads(dir, f) == {}

\* deleteUploadedFile(filename): unlink when the file exists.
deleteUploadedFile(dir, f) == dir \ {f}

HasUploadCover(doc) == doc.coverImage.t = "upload"

(***************************************************************************)
(* User model: updateStats                                                 *)
(***************************************************************************)
StatKeys == {"totalBooks", "booksRead", "currentlyReading", "toRead"}

CountStatus(u, st) == Cardinality({i \in DOMAIN books : books[i].user = Oid(u) /\ books[i].status = st})

\* Book.aggregate([{$match: {user}}, {$group: {_id: '$status', count}}])
\* folded into the four counters as updateStats does.
aggregate(u) ==
  [totalBooks |-> Cardinality({i \in DOMAIN books : books[i].user = Oid(u)}),
   booksRead |-> CountStatus(u, S(Read)),
   currentlyReading |-> CountStatus(u, S(Reading)),
   toRead |-> CountStatus(u, S(ToRead))]

\* this.save() of the user document: the paths whose value differs from the
\* loaded one are written, the others are left as stored.
saveStats(stored, loaded, computed) ==
  [k \in StatKeys |-> IF computed[k] # loaded[k] THEN computed[k] ELSE stored[k]]

\* A pre-save hook that hashes the password on every save.
userPreSaveAlways(doc, passwordModified, salt) ==
  [doc EXCEPT !.password = Hash(@, salt)]

\* userSchema.pre('save'): the password is hashed when it was modified.
userPreSave(doc, passwordModified, salt) ==
  IF ~passwordModified THEN doc
  ELSE [doc EXCEPT !.password = Hash(@, salt)]

\* save() of a user document that was loaded as `loaded` and now reads
\* `doc`: the pre-save hook runs, then the modified paths are written.
saveUser(stored, loaded, doc, salt) ==
  LET hooked == userPreSave(doc, doc.password # loaded.password, salt) IN
  [stored EXCEPT
     !.stats = saveStats(stored.stats, loaded.stats, hooked.stats),
     !.password = IF hooked.password # loaded.password THEN hooked.password ELSE @,
     !.username = IF hooked.username # loaded.username THEN hooked.username ELSE @,
     !.email = IF hooked.email # loaded.email THEN hooked.email ELSE @]

(***************************************************************************)
(* Requests: arrival, the gates, the upload middleware                     *)
(***************************************************************************)
Set(s, r) == req' = [req EXCEPT ![s] = r]

Details(list) == [t |-> "details", list |-> list]

\* The messages of a persistence ValidationError, one per failing path.
Errors(doc) == [t |-> "errors", paths |-> {k \in DOMAIN doc : ~PathValid(k, doc[k])}]

Answer(r, status, message, data) ==
  [r EXCEPT !.pc = "done", !.resp = @ \o <<Response(status, message, data)>>]

\* Documents that requests already admitted may still insert.
PendingCreates ==
  Cardinality({s \in Slots : req[s].method = "POST" /\ req[s].pc \in {"auth", "upload", "handler"}})

\* A client sends a request; it is served in the lowest free slot.
Start(s) ==
  /\ req[s].pc = "idle"
  /\ \A t \in Slots : t < s => req[t].pc # "idle"
  /\ Cardinality(InFlight) < env.inflight
  /\ \E router \in env.routers, method \in env.methods, hdr \in env.headers, id \in 0..MaxBooks :
       /\ (method \in {"POST", "ADMIN"}) <=> (id = 0)
       /\ method = "POST" => nextBook + PendingCreates <= env.capacity
       /\ Set(s, [IdleReq EXCEPT !.pc = IF method = "ADMIN" THEN "admin" ELSE "auth",
                                 !.router = router, !.method = method,
                                 !.hdr = hdr, !.id = id])
  /\ UNCHANGED <<books, files, users, now, nextBook, nextFile, env, page>>

\* The auth middleware in front of every private route.
Auth(s) ==
  /\ req[s].pc = "auth"
  /\ \E lookupThrows \in BOOLEAN :
       LET a == auth(req[s].hdr, lookupThrows) IN
       Set(s, [req[s] EXCEPT
                 !.pc = IF a.next = 0 THEN "done"
                        ELSE IF req[s].method \in {"POST", "PUT"} THEN "upload"
                        ELSE "handler",
                 !.user = a.user,
                 !.nextCalls = @ + a.next,
                 !.resp = @ \o a.resp])
  /\ UNCHANGED <<books, files, users, now, nextBook, nextFile, env, page>>

\* The adminAuth middleware in front of an admin-only route.
AdminGate(s) ==
  /\ req[s].pc = "admin"
  /\ \E lookupThrows \in BOOLEAN :
       LET a == adminAuth(req[s].hdr, lookupThrows) IN
       Set(s, [req[s] EXCEPT !.pc = "done", !.user = a.user,
                             !.nextCalls = @ + a.next, !.resp = @ \o a.resp])
  /\ UNCHANGED <<books, files, users, now, nextBook, nextFile, env, page>>

\* multer that leaves the file of an aborted upload in place.
keepUploadedFiles(dir, f) == dir

\* multer on an aborted upload: the files it has written are removed.
removeUploadedFiles(dir, f) == dir \ {f}

\* handleUploadError: the answer to an error passed on by uploadSingle; any
\* other error goes on to the default error handler.
handleUploadError(code) ==
  IF code = "LIMIT_FILE_SIZE"
    THEN Response(400, "File too large. Maximum size is 5MB.", Undefined)
  ELSE IF code = "LIMIT_FILE_COUNT"
    THEN Response(400, "Too many files. Only one file allowed.", Undefined)
  ELSE IF code = "LIMIT_UNEXPECTED_FILE"
    THEN Response(400, "Unexpected file field.", Undefined)
  ELSE IF code = "Only image files are allowed!"
    THEN Response(400, "Only image files (JPEG, PNG, GIF, WebP) are allowed.", Undefined)
  ELSE Response(500, "Internal Server Error", Undefined)

\* The multipart bodies the request in slot s can carry: the one its sender
\* built, or any of the run's bodies.
Sent(s) == IF req[s].body # EmptyBody THEN {req[s].body} ELSE env.bodies

\* uploadSingle: the multipart body is parsed into req.body.  An attached
\* file passes fileFilter and is stored in the uploads directory under a
\* fresh name; a file of another content type is never stored, a file over
\* the size limit is removed again, and both errors are answered by
\* handleUploadError without the rest of the route running.
Upload(s) ==
  /\ req[s].pc = "upload"
  /\ \E body \in Sent(s), attached \in env.uploads, kind \in env.filekinds :
       IF ~attached
       THEN /\ Set(s, [req[s] EXCEPT !.pc = "handler", !.body = body])
            /\ UNCHANGED <<files, nextFile>>
       ELSE IF ~kind.image
       THEN /\ Set(s, [req[s] EXCEPT !.pc = "done", !.kind = kind,
                                     !.resp = @ \o <<handleUploadError("Only image files are allowed!")>>])
            /\ UNCHANGED <<files, nextFile>>
       ELSE IF kind.large
       THEN /\ nextFile <= MaxFiles
            /\ files' = removeUploadedFiles(files \cup {nextFile}, nextFile)
            /\ nextFile' = nextFile + 1
            /\ Set(s, [req[s] EXCEPT !.pc = "done", !.kind = kind, !.file = nextFile,
                                     !.resp = @ \o <<handleUploadError("LIMIT_FILE_SIZE")>>])
       ELSE /\ nextFile <= MaxFiles
            /\ files' = files \cup {nextFile}
            /\ nextFile' = nextFile + 1
            /\ Set(s, [req[s] EXCEPT !.pc = "optimize", !.body = body, !.kind = kind,
                                     !.upload = TRUE, !.file = nextFile])
  /\ UNCHANGED <<books, users, now, nextBook, env, page>>

\* path.join(uploadDir, 'optimized-' + req.file.filename)
outputPath(f) == -f

\* The outcomes of a step that the run's faults allow.
Outcomes(steps) == {"none"} \cup (env.faults \cap steps)

\* optimizeImage: sharp writes the normalized image to outputPath, the
\* original is unlinked and the output renamed onto its path; whichever
\* step throws, the catch calls next.
Optimize(s) ==
  LET r == req[s] IN
  /\ r.pc = "optimize"
  /\ \E fault \in Outcomes({"sharp", "unlink", "rename"}) :
       /\ files' = CASE fault = "sharp" -> files
                      [] fault = "unlink" -> files \cup {outputPath(r.file)}
                      [] fault = "rename" -> (files \ {r.file}) \cup {outputPath(r.file)}
                      [] OTHER -> files
       /\ Set(s, [r EXCEPT !.pc = "handler", !.fault = fault])
  /\ UNCHANGED <<books, users, now, nextBook, nextFile, env, page>>

\* The uploads directory when the request's own file is left in place.
KeepUpload(r) == files

\* The uploads directory after the request's own file, if any, is deleted.
WithoutUpload(r) == IF r.upload THEN deleteUploadedFile(files, r.file) ELSE files

(***************************************************************************)
(* The validating books router                                             *)
(***************************************************************************)
\* Whether a store operation rejects: only in runs that meet the fault.
Throws(fault) == {FALSE} \cup {b \in {TRUE} : fault \in env.faults}

\* router.post('/'): validation, then book.save() up to the insert.  save
\* validates the document, runs pre('save') and inserts.
PostHandler(s) ==
  LET r == req[s]
      v == validate(r.body)
      coverImage == IF r.upload THEN Cover(r.file) ELSE Null
      book == NewBook(Merge(Merge(v.value, [coverImage |-> coverImage]),
                            [user |-> Oid(r.user)]))
      doc == preSave(book, TRUE, Date)
  IN
  /\ r.pc = "handler" /\ r.router = "books" /\ r.method = "POST"
  /\ \E saveThrows \in Throws("db") :
     IF v.error
     THEN /\ files' = WithoutUpload(r)
          /\ Set(s, Answer(r, 400, "Validation error", Details(v.details)))
          /\ UNCHANGED <<books, nextBook>>
     ELSE IF ~DocValid(book)
     THEN /\ files' = WithoutUpload(r)
          /\ Set(s, Answer(r, 400, "Validation error", Errors(book)))
          /\ UNCHANGED <<books, nextBook>>
     ELSE IF saveThrows
     THEN /\ files' = WithoutUpload(r)
          /\ Set(s, Answer(r, 500, "Server error while adding book", Undefined))
          /\ UNCHANGED <<books, nextBook>>
     ELSE /\ books' = [i \in DOMAIN books \cup {nextBook} |->
                         IF i = nextBook THEN doc ELSE books[i]]
          /\ nextBook' = nextBook + 1
          /\ Set(s, [r EXCEPT !.pc = "stats_find", !.id = nextBook, !.doc = doc])
          /\ UNCHANGED files
  /\ UNCHANGED <<users, now, nextFile, env, page>>

\* What the route handler does once the model hook has settled.
Settled(s, r) ==
  IF r.method = "POST"
  THEN /\ Set(s, Answer(r, 201, IF r.router = "books" THEN "Book added successfully" ELSE "", r.doc))
       /\ UNCHANGED files
  ELSE IF r.router = "legacy"
  THEN /\ Set(s, Answer(r, 200, "Book removed", Undefined))
       /\ UNCHANGED files
  ELSE /\ files' = IF HasUploadCover(r.doc)
                   THEN deleteUploadedFile(files, r.doc.coverImage.f) ELSE files
       /\ Set(s, Answer(r, 200, "Book deleted successfully",
                         [t |-> "deleted", id |-> r.id, title |-> r.doc.title,
                          author |-> r.doc.author]))

\* A hook whose error reaches the catch of the route handler.
Uncaught(s, r) ==
  /\ files' = WithoutUpload(r)
  /\ Set(s, Answer([r EXCEPT !.hook = "threw"], 500, "Server error", Undefined))

\* The catch of the model hook: the error is logged and the hook resolves,
\* so the route handler goes on as after a recomputation.
Caught(s, r) == Settled(s, [r EXCEPT !.hook = "threw"])

\* post('save') / post('findOneAndDelete'): User.findById(doc.user)
StatsFind(s) ==
  LET r == req[s] IN
  /\ r.pc = "stats_find"
  /\ \E findThrows \in Throws("stats") :
     IF findThrows THEN Caught(s, r)
     ELSE IF r.doc.user.t = "oid" /\ r.doc.user.id \in DOMAIN users
     THEN /\ Set(s, [r EXCEPT !.pc = "stats_agg", !.udoc = users[r.doc.user.id]])
          /\ UNCHANGED files
     ELSE Settled(s, [r EXCEPT !.hook = "nouser"])
  /\ UNCHANGED <<books, users, now, nextBook, nextFile, env, page>>

\* updateStats: the aggregate over the user's books
StatsAggregate(s) ==
  LET r == req[s] IN
  /\ r.pc = "stats_agg"
  /\ \E aggregateThrows \in Throws("stats") :
     IF aggregateThrows THEN Caught(s, r)
     ELSE /\ Set(s, [r EXCEPT !.pc = "stats_save", !.agg = aggregate(r.doc.user.id)])
          /\ UNCHANGED files
  /\ UNCHANGED <<books, users, now, nextBook, nextFile, env, page>>

\* updateStats: this.save(), after which the route handler answers.  The
\* save of a document that is no longer stored rejects.
StatsSave(s) ==
  LET r == req[s] IN
  /\ r.pc = "stats_save"
  /\ \E saveThrows \in Throws("stats"), salt \in Salts :
     IF saveThrows \/ r.doc.user.id \notin DOMAIN users
     THEN /\ Caught(s, r)
          /\ UNCHANGED users
     ELSE /\ users' = [users EXCEPT ![r.doc.user.id] =
                         saveUser(@, r.udoc, [r.udoc EXCEPT !.stats = r.agg], salt)]
          /\ Settled(s, [r EXCEPT !.hook = "saved"])
  /\ UNCHANGED <<books, now, nextBook, nextFile, env, page>>

\* router.get('/:id')
GetHandler(s) ==
  LET r == req[s]
      book == findOne(r.id, r.user)
  IN
  /\ r.pc = "handler" /\ r.router \in {"books", "legacy"} /\ r.method = "GET"
  /\ IF book = Null
     THEN Set(s, Answer(r, 404, "Book not found", Undefined))
     ELSE Set(s, Answer(r, 200, "", book))
  /\ UNCHANGED <<books, files, users, now, nextBook, nextFile, env, page>>

\* router.put('/:id'): validation, the ownership lookup and the removal of
\* the cover that is being replaced.
PutFind(s) ==
  LET r == req[s]
      v == validate(r.body)
      existingBook == findOne(r.id, r.user)
  IN
  /\ r.pc = "handler" /\ r.router = "books" /\ r.method = "PUT"
  /\ \E findThrows \in Throws("db") :
     IF v.error
     THEN /\ files' = WithoutUpload(r)
          /\ Set(s, Answer(r, 400, "Validation error", Details(v.details)))
     ELSE IF findThrows
     THEN /\ files' = WithoutUpload(r)
          /\ Set(s, Answer(r, 500, "Server error while updating book", Undefined))
     ELSE IF existingBook = Null
     THEN /\ files' = WithoutUpload(r)
          /\ Set(s, Answer(r, 404, "Book not found", Undefined))
     ELSE /\ files' = IF r.upload /\ HasUploadCover(existingBook)
                      THEN deleteUploadedFile(files, existingBook.coverImage.f)
                      ELSE files
          /\ Set(s, [r EXCEPT !.pc = "put_update", !.existing = existingBook])
  /\ UNCHANGED <<books, users, now, nextBook, nextFile, env, page>>

\* The $set document of an update, cast to the schema.
CastUpdate(updateData) ==
  [k \in DOMAIN updateData \cap DocKeys |-> Cast(k, updateData[k])]

\* The $set document of the request: the validated value and, with a file,
\* the new cover path.
SetOf(r) ==
  CastUpdate(IF r.upload THEN Merge(validate(r.body).value, [coverImage |-> Cover(r.file)])
             ELSE validate(r.body).value)

\* An update that writes back the copy read by the ownership lookup.
replaceDoc(stored, loaded, set) == Merge(loaded, set)

\* findOneAndUpdate: $set is applied to the stored document in one step.
applySet(stored, loaded, set) == Merge(stored, set)

\* router.put('/:id'): Book.findOneAndUpdate with runValidators
PutUpdate(s) ==
  LET r == req[s]
      set == SetOf(r)
  IN
  /\ r.pc = "put_update"
  /\ \E updateThrows \in Throws("db") :
     IF ~DocValid(set)
     THEN /\ files' = WithoutUpload(r)
          /\ Set(s, Answer(r, 400, "Validation error", Errors(set)))
          /\ UNCHANGED books
     ELSE IF updateThrows
     THEN /\ files' = WithoutUpload(r)
          /\ Set(s, Answer(r, 500, "Server error while updating book", Undefined))
          /\ UNCHANGED books
     ELSE IF findOne(r.id, r.user) = Null
     THEN /\ Set(s, Answer(r, 200, "Book updated successfully", Null))
          /\ UNCHANGED <<books, files>>
     ELSE /\ books' = [books EXCEPT ![r.id] = applySet(@, r.existing, set)]
          /\ Set(s, Answer(r, 200, "Book updated successfully",
                            applySet(books[r.id], r.existing, set)))
          /\ UNCHANGED files
  /\ UNCHANGED <<users, now, nextBook, nextFile, env, page>>

\* router.delete('/:id'): Book.findOneAndDelete up to the removal
DeleteHandler(s) ==
  LET r == req[s]
      book == findOne(r.id, r.user)
  IN
  /\ r.pc = "handler" /\ r.router = "books" /\ r.method = "DELETE"
  /\ IF book = Null
     THEN /\ Set(s, Answer(r, 404, "Book not found", Undefined))
          /\ UNCHANGED books
     ELSE /\ books' = [i \in DOMAIN books \ {r.id} |-> books[i]]
          /\ Set(s, [r EXCEPT !.pc = "stats_find", !.doc = book])
  /\ UNCHANGED <<files, users, now, nextBook, nextFile, env, page>>

\* The response has been delivered; the slot is free again.
Retire(s) ==
  /\ req[s].pc = "done"
  /\ Set(s, IdleReq)
  /\ UNCHANGED <<books, files, users, now, nextBook, nextFile, env, page>>

\* Time passes.
Tick ==
  /\ now < env.ticks
  /\ now' = now + 1
  /\ UNCHANGED <<books, files, users, nextBook, nextFile, req, env, page>>

Next ==
  \/ \E s \in Slots : Start(s)
  \/ \E s \in Slots : Auth(s)
  \/ \E s \in Slots : Upload(s)
  \/ \E s \in Slots : PostHandler(s)
  \/ \E s \in Slots : StatsFind(s)
  \/ \E s \in Slots : StatsAggregate(s)
  \/ \E s \in Slots : StatsSave(s)
  \/ \E s \in Slots : GetHandler(s)
  \/ \E s \in Slots : PutFind(s)
  \/ \E s \in Slots : PutUpdate(s)
  \/ \E s \in Slots : DeleteHandler(s)
  \/ \E s \in Slots : Retire(s)
  \/ Tick

Spec == Init /\ [][Next]_vars

\* The same router under clients whose books pass through the statuses at
\* different times.
SpecDates == InitDates /\ [][Next]_vars

\* The router with the cover normalization of the requests that carry a file.
NextUpload ==
  \/ Next
  \/ \E s \in Slots : Optimize(s)

\* The same router under clients of two users.
SpecAccess == InitAccess /\ [][NextUpload]_vars

\* One user's submissions with cover files, under store and normalization
\* faults.
SpecUpload == InitUpload /\ [][NextUpload]_vars

\* One user's covers, replaced one request at a time under store faults.
SpecCovers == InitCovers /\ [][NextUpload]_vars

\* Overlapping updates with covers and deletes of one book.
NextSwap ==
  \/ \E s \in Slots : Start(s)
  \/ \E s \in Slots : Auth(s)
  \/ \E s \in Slots : Upload(s)
  \/ \E s \in Slots : Optimize(s)
  \/ \E s \in Slots : PostHandler(s)
  \/ \E s \in Slots : StatsFind(s)
  \/ \E s \in Slots : StatsAggregate(s)
  \/ \E s \in Slots : StatsSave(s)
  \/ \E s \in Slots : PutFind(s)
  \/ \E s \in Slots : PutUpdate(s)
  \/ \E s \in Slots : DeleteHandler(s)
  \/ \E s \in Slots : Retire(s)

SpecSwap == InitSwap /\ [][NextSwap]_vars

\* Overlapping creates and deletes of one user.
NextConc ==
  \/ \E s \in Slots : Start(s)
  \/ \E s \in Slots : Auth(s)
  \/ \E s \in Slots : Upload(s)
  \/ \E s \in Slots : PostHandler(s)
  \/ \E s \in Slots : StatsFind(s)
  \/ \E s \in Slots : StatsAggregate(s)
  \/ \E s \in Slots : StatsSave(s)
  \/ \E s \in Slots : DeleteHandler(s)
  \/ \E s \in Slots : Retire(s)

SpecConc == InitConc /\ [][NextConc]_vars

\* Overlapping updates of one user.
NextEdits ==
  \/ \E s \in Slots : Start(s)
  \/ \E s \in Slots : Auth(s)
  \/ \E s \in Slots : Upload(s)
  \/ \E s \in Slots : PostHandler(s)
  \/ \E s \in Slots : StatsFind(s)
  \/ \E s \in Slots : StatsAggregate(s)
  \/ \E s \in Slots : StatsSave(s)
  \/ \E s \in Slots : PutFind(s)
  \/ \E s \in Slots : PutUpdate(s)
  \/ \E s \in Slots : Retire(s)

SpecEdits == InitEdits /\ [][NextEdits]_vars

\* The record of a client's user is removed from the store (nothing in the
\* router does this; the gate and the hooks provide for it).
UserGone ==
  /\ \E u \in DOMAIN users :
       /\ Bearer(u) \in env.headers
       /\ users' = [v \in DOMAIN users \ {u} |-> users[v]]
  /\ UNCHANGED <<books, files, now, nextBook, nextFile, req, env, page>>

\* A user document is loaded, its password is assigned and it is saved; the
\* assigned value is a new plaintext or the value already stored.
SetPassword ==
  /\ \E u \in DOMAIN users, salt \in Salts :
       /\ Bearer(u) \in env.headers
       /\ \E password \in {Plain("secret2"), users[u].password} :
            users' = [users EXCEPT ![u] =
                        saveUser(@, users[u], [users[u] EXCEPT !.password = password], salt)]
  /\ UNCHANGED <<books, files, now, nextBook, nextFile, req, env, page>>

\* Creates and deletes whose stats hook can fail.
NextHooks ==
  \/ \E s \in Slots : Start(s)
  \/ \E s \in Slots : Auth(s)
  \/ \E s \in Slots : Upload(s)
  \/ \E s \in Slots : PostHandler(s)
  \/ \E s \in Slots : StatsFind(s)
  \/ \E s \in Slots : StatsAggregate(s)
  \/ \E s \in Slots : StatsSave(s)
  \/ \E s \in Slots : DeleteHandler(s)
  \/ \E s \in Slots : Retire(s)
  \/ UserGone
  \/ SetPassword

SpecHooks == InitHooks /\ [][NextHooks]_vars

\* The gates in front of a private route and of an admin-only route.
NextGate ==
  \/ \E s \in Slots : Start(s)
  \/ \E s \in Slots : Auth(s)
  \/ \E s \in Slots : AdminGate(s)
  \/ \E s \in Slots : GetHandler(s)
  \/ \E s \in Slots : Retire(s)

SpecGate == InitGate /\ [][NextGate]_vars

(***************************************************************************)
(* The route table of the validating router and the routes without a body  *)
(***************************************************************************)
Route(method, path, private) == [method |-> method, path |-> path, private |-> private]

\* A table in which '/:id' is registered ahead of the literal GET routes.
RoutesIdFirst ==
  << Route("POST", "/", TRUE),
     Route("GET", "/:id", TRUE),
     Route("GET", "/search-external", FALSE),
     Route("GET", "/search", TRUE),
     Route("GET", "/", TRUE),
     Route("PUT", "/:id", TRUE),
     Route("DELETE", "/:id", TRUE),
     Route("GET", "/stats", TRUE),
     Route("GET", "/genres", TRUE),
     Route("GET", "/authors", TRUE) >>

\* The routes in the order in which the router registers them.
Routes ==
  << Route("POST", "/", TRUE),
     Route("GET", "/search-external", FALSE),
     Route("GET", "/search", TRUE),
     Route("GET", "/", TRUE),
     Route("GET", "/:id", TRUE),
     Route("PUT", "/:id", TRUE),
     Route("DELETE", "/:id", TRUE),
     Route("GET", "/stats", TRUE),
     Route("GET", "/genres", TRUE),
     Route("GET", "/authors", TRUE) >>

\* Whether a route path matches a request path: a parameter matches any
\* single segment, a literal matches itself.
Matches(path, seg) ==
  IF path = "/" THEN seg.t = "root"
  ELSE IF path = "/:id" THEN seg.t \in {"lit", "id"}
  ELSE seg.t = "lit" /\ path = "/" \o seg.s

Matching(table, method, seg) ==
  {i \in 1..Len(table) : table[i].method = method /\ Matches(table[i].path, seg)}

\* The first registered route that matches, which answers the request.
Dispatch(table, method, seg) ==
  table[CHOOSE i \in Matching(table, method, seg) :
          \A j \in Matching(table, method, seg) : i <= j]

UnknownTitle == <<"U", "n", "k", "n", "o", "w", "n", " ", "T", "i", "t", "l", "e">>
UnknownAuthor == <<"U", "n", "k", "n", "o", "w", "n", " ", "A", "u", "t", "h", "o", "r">>

\* authors.join(', ')
RECURSIVE Join(_)
Join(list) ==
  IF list = <<>> THEN <<>>
  ELSE IF Len(list) = 1 THEN list[1].s
  ELSE list[1].s \o <<",", " ">> \o Join(Tail(list))

\* The title and author of one volume in the book-submission shape.
MapVolume(volumeInfo) ==
  [title |-> IF Has(volumeInfo, "title") /\ volumeInfo.title.s # <<>>
             THEN volumeInfo.title ELSE S(UnknownTitle),
   author |-> IF Has(volumeInfo, "authors")
              THEN S(Join(volumeInfo.authors.a)) ELSE S(UnknownAuthor)]

\* What the upstream search can answer: a failure, a body without items,
\* or a list of volumes.
Replies ==
  { [t |-> "error"], [t |-> "data"],
    [t |-> "data", items |-> A(<< [title |-> S(Dune), authors |-> A(<<S(Herbert), S(Emma)>>)],
                                  [k \in {} |-> Null] >>)] }

\* Book.distinct(path, {user, [path]: {$ne: ''}}), without the empty values
distinct(k, u) ==
  {books[i][k] : i \in {j \in DOMAIN books : books[j].user = Oid(u) /\ Has(books[j], k)
                                               /\ books[j][k] # S(<<>>)}}

\* A client sends a GET for a path of the router; the first matching route
\* takes it.
StartGet(s) ==
  /\ req[s].pc = "idle"
  /\ \A t \in Slots : t < s => req[t].pc # "idle"
  /\ Cardinality(InFlight) < env.inflight
  /\ \E seg \in env.paths, hdr \in env.headers, query \in env.queries :
       LET route == Dispatch(Routes, "GET", seg) IN
       Set(s, [IdleReq EXCEPT !.pc = IF route.private THEN "auth" ELSE "handler",
                              !.router = "dispatch", !.method = "GET", !.hdr = hdr,
                              !.route = route.path, !.seg = seg, !.query = query])
  /\ UNCHANGED <<books, files, users, now, nextBook, nextFile, env, page>>

\* The handlers of the GET routes; search-external up to its outbound call.
GetRoute(s) ==
  LET r == req[s] IN
  /\ r.pc = "handler" /\ r.router = "dispatch"
  /\ CASE r.route = "/search-external" ->
            IF r.query = ""
            THEN Set(s, Answer(r, 400, "Query is required", Undefined))
            ELSE IF ~env.apikey
            THEN Set(s, Answer(r, 500, "Google Books API not configured", Undefined))
            ELSE Set(s, [r EXCEPT !.pc = "lookup", !.lookups = @ + 1])
       [] r.route = "/" ->
            Set(s, Answer(r, 200, "",
                          [t |-> "list",
                           books |-> {i \in DOMAIN books : books[i].user = Oid(r.user)}]))
       [] r.route = "/:id" ->
            \* a segment that is no ObjectId makes the cast of the filter throw
            IF r.seg.t # "id"
            THEN Set(s, Answer(r, 500, "Server error", Undefined))
            ELSE IF findOne(r.seg.id, r.user) = Null
            THEN Set(s, Answer(r, 404, "Book not found", Undefined))
            ELSE Set(s, Answer(r, 200, "", findOne(r.seg.id, r.user)))
       [] r.route = "/stats" ->
            \* getReadingStats calls mongoose.Types.ObjectId without new,
            \* which throws under the mongoose version of package.json
            Set(s, Answer(r, 500, "Server error while retrieving statistics", Undefined))
       [] r.route = "/genres" ->
            Set(s, Answer(r, 200, "Genres retrieved successfully",
                          [t |-> "distinct", values |-> distinct("genre", r.user)]))
       [] r.route = "/authors" ->
            Set(s, Answer(r, 200, "Authors retrieved successfully",
                          [t |-> "distinct", values |-> distinct("author", r.user)]))
  /\ UNCHANGED <<books, files, users, now, nextBook, nextFile, env, page>>

\* search-external once the outbound call has settled.
SearchReply(s) ==
  LET r == req[s] IN
  /\ r.pc = "lookup"
  /\ \E reply \in Replies :
       IF reply.t = "error"
       THEN Set(s, Answer(r, 500, "Error searching external book database", Undefined))
       ELSE IF ~Has(reply, "items")
       THEN Set(s, Answer(r, 200, "", [t |-> "books", books |-> <<>>]))
       ELSE Set(s, Answer(r, 200, "",
                          [t |-> "books",
                           books |-> [i \in 1..Len(reply.items.a) |-> MapVolume(reply.items.a[i])]]))
  /\ UNCHANGED <<books, files, users, now, nextBook, nextFile, env, page>>

\* The router as its GET clients see it, next to one user who adds books.
NextRoutes ==
  \/ \E s \in Slots : Start(s)
  \/ \E s \in Slots : StartGet(s)
  \/ \E s \in Slots : Auth(s)
  \/ \E s \in Slots : Upload(s)
  \/ \E s \in Slots : PostHandler(s)
  \/ \E s \in Slots : StatsFind(s)
  \/ \E s \in Slots : StatsAggregate(s)
  \/ \E s \in Slots : StatsSave(s)
  \/ \E s \in Slots : GetRoute(s)
  \/ \E s \in Slots : SearchReply(s)
  \/ \E s \in Slots : Retire(s)

SpecRoutes == InitRoutes /\ [][NextRoutes]_vars

(***************************************************************************)
(* The earlier version of the books router (routes/books.js)               *)
(***************************************************************************)
\* router.post('/'): the body's remaining keys are spread after user.
LegacyPost(s) ==
  LET r == req[s]
      coverImage == IF r.upload THEN Cover(r.file) ELSE Null
      obj == Merge([coverImage |-> coverImage, user |-> Oid(r.user)], r.body)
      book == NewBook(obj)
      doc == preSave(book, Has(r.body, "status"), Date)
  IN
  /\ r.pc = "handler" /\ r.router = "legacy" /\ r.method = "POST"
  /\ IF ~DocValid(book)
     THEN /\ Set(s, Answer(r, 500, "Server error", Undefined))
          /\ UNCHANGED <<books, nextBook>>
     ELSE /\ books' = [i \in DOMAIN books \cup {nextBook} |->
                         IF i = nextBook THEN doc ELSE books[i]]
          /\ nextBook' = nextBook + 1
          /\ Set(s, [r EXCEPT !.pc = "stats_find", !.id = nextBook, !.doc = doc])
  /\ UNCHANGED <<files, users, now, nextFile, env, page>>

\* router.put('/:id'): one findOneAndUpdate, without validators.
LegacyPut(s) ==
  LET r == req[s]
      coverImage == IF r.upload THEN Cover(r.file) ELSE Null
      set == CastUpdate(Merge([coverImage |-> coverImage], r.body))
  IN
  /\ r.pc = "handler" /\ r.router = "legacy" /\ r.method = "PUT"
  /\ IF findOne(r.id, r.user) = Null
     THEN /\ Set(s, Answer(r, 404, "Book not found", Undefined))
          /\ UNCHANGED books
     ELSE /\ books' = [books EXCEPT ![r.id] = Merge(@, set)]
          /\ Set(s, Answer(r, 200, "", Merge(books[r.id], set)))
  /\ UNCHANGED <<files, users, now, nextBook, nextFile, env, page>>

\* router.delete('/:id'): Book.findOneAndDelete up to the removal
LegacyDelete(s) ==
  LET r == req[s]
      book == findOne(r.id, r.user)
  IN
  /\ r.pc = "handler" /\ r.router = "legacy" /\ r.method = "DELETE"
  /\ IF book = Null
     THEN /\ Set(s, Answer(r, 404, "Book not found", Undefined))
          /\ UNCHANGED books
     ELSE /\ books' = [i \in DOMAIN books \ {r.id} |-> books[i]]
          /\ Set(s, [r EXCEPT !.pc = "stats_find", !.doc = book])
  /\ UNCHANGED <<files, users, now, nextBook, nextFile, env, page>>

NextLegacy ==
  \/ \E s \in Slots : Start(s)
  \/ \E s \in Slots : Auth(s)
  \/ \E s \in Slots : Upload(s)
  \/ \E s \in Slots : LegacyPost(s)
  \/ \E s \in Slots : StatsFind(s)
  \/ \E s \in Slots : StatsAggregate(s)
  \/ \E s \in Slots : StatsSave(s)
  \/ \E s \in Slots : GetHandler(s)
  \/ \E s \in Slots : LegacyPut(s)
  \/ \E s \in Slots : LegacyDelete(s)
  \/ \E s \in Slots : Retire(s)
  \/ Tick

SpecLegacy == InitLegacy /\ [][NextLegacy]_vars

(***************************************************************************)
(* The browser client: DashboardPage, BookForm and booksAPI                *)
(***************************************************************************)
FormKeys == {"title", "author", "status", "isbn", "pageCount", "rating", "coverImage"}

\* JavaScript's a || b on the values of the model.
Falsy(x) == x.t \in {"undef", "null"} \/ x = S(<<>>) \/ x = N(0)
OrElse(x, d) == IF Falsy(x) THEN d ELSE x

\* The initial state of BookForm's formData for the book prop it is mounted
\* with (the paths of the form that the schema of the model carries).
useState(book) ==
  [k \in FormKeys |->
     IF k = "coverImage" THEN Null
     ELSE IF book = Null THEN (IF k = "status" THEN S(ToRead) ELSE S(<<>>))
     ELSE OrElse(book[k], IF k = "status" THEN S(ToRead) ELSE S(<<>>))]

\* String(n) for a natural number.
RECURSIVE DecimalString(_)
DecimalString(n) ==
  IF n < 10 THEN <<Digits[n + 1]>>
  ELSE DecimalString(n \div 10) \o <<Digits[(n % 10) + 1]>>

\* FormData.append(key, value): the value is sent as its string.
append(x) ==
  IF x.t = "num" THEN S(DecimalString(x.n))
  ELSE IF x.t = "null" THEN S(<<"n", "u", "l", "l">>)
  ELSE x

\* booksAPI.createBook / updateBook: every key of the form data is appended.
FormBody(formData) == [k \in DOMAIN formData |-> append(formData[k])]

\* What the user types into the fields of the form.
Keystrokes ==
  {<<"title", S(Emma)>>, <<"author", S(Herbert)>>,
   <<"pageCount", S(<<"3", "0", "0">>)>>, <<"rating", S(<<"5">>)>>}

\* closeForm
closeForm(p) == [p EXCEPT !.openForm = FALSE, !.editingBook = Null]

\* The page's request goes out and is served in the lowest free slot.
Send(s, method, id, body) ==
  /\ req[s].pc = "idle"
  /\ \A q \in Slots : q < s => req[q].pc # "idle"
  /\ Set(s, [IdleReq EXCEPT !.pc = "auth", !.router = "books", !.method = method,
                            !.hdr = Bearer("u1"), !.id = id, !.body = body])

\* fetchBooks resolves: the list is replaced, loading ends and BookForm is
\* mounted anew with the book prop of that render.
fetchBooks ==
  /\ page.loading
  /\ page' = [page EXCEPT
                !.loading = FALSE,
                !.books = [i \in {j \in DOMAIN books : books[j].user = Oid("u1")} |-> books[i]],
                !.formData = useState(page.editingBook),
                !.touched = FALSE]
  /\ UNCHANGED <<books, files, users, now, nextBook, nextFile, req, env>>

\* The Add Book button: setOpenForm(true)
openAddForm ==
  /\ ~page.loading /\ ~page.openForm
  /\ page' = [page EXCEPT !.openForm = TRUE, !.touched = FALSE]
  /\ UNCHANGED <<books, files, users, now, nextBook, nextFile, req, env>>

\* openEditForm(book), from the card of a listed book
openEditForm ==
  /\ ~page.loading /\ ~page.openForm
  /\ \E i \in DOMAIN page.books :
       page' = [page EXCEPT !.openForm = TRUE, !.touched = FALSE,
                            !.editingBook = Merge(page.books[i], [_id |-> i])]
  /\ UNCHANGED <<books, files, users, now, nextBook, nextFile, req, env>>

\* handleChange: one field of the open form is edited.
handleChange ==
  /\ ~page.loading /\ page.openForm
  /\ \E key \in Keystrokes :
       /\ page.formData[key[1]] # key[2]
       /\ page' = [page EXCEPT !.formData[key[1]] = key[2], !.touched = TRUE]
  /\ UNCHANGED <<books, files, users, now, nextBook, nextFile, req, env>>

\* The Cancel button.
Cancel ==
  /\ ~page.loading /\ page.openForm
  /\ page' = closeForm(page)
  /\ UNCHANGED <<books, files, users, now, nextBook, nextFile, req, env>>

\* handleSubmit: the browser lets the form go when the required fields
\* title and author are filled in; onSubmit sends the form data with
\* handleEditBook or handleAddBook, and the dialog closes.
handleSubmit(s) ==
  /\ ~page.loading /\ page.openForm
  /\ page.formData.title # S(<<>>) /\ page.formData.author # S(<<>>)
  /\ IF page.editingBook # Null
     THEN Send(s, "PUT", page.editingBook._id, FormBody(page.formData))
     ELSE /\ nextBook + PendingCreates <= env.capacity
          /\ Send(s, "POST", 0, FormBody(page.formData))
  /\ page' = closeForm(page)
  /\ UNCHANGED <<books, files, users, now, nextBook, nextFile, env>>

\* handleDeleteBook(bookId), confirmed by the user
handleDeleteBook(s) ==
  /\ ~page.loading /\ ~page.openForm
  /\ \E i \in DOMAIN page.books : Send(s, "DELETE", i, EmptyBody)
  /\ UNCHANGED <<books, files, users, now, nextBook, nextFile, env, page>>

\* The rest of handleAddBook, handleEditBook and handleDeleteBook once the
\* response is in: a 2xx starts fetchBooks (and handleEditBook clears
\* editingBook), anything else sets the error.  On a 401 the response
\* interceptor sends the browser to the login page, and the dashboard the
\* user comes back to is a new one.
Respond(s) ==
  LET r == req[s] IN
  /\ r.pc = "done"
  /\ page' = IF r.resp[1].status = 401 THEN NewPage
             ELSE IF r.resp[1].status \in {200, 201}
             THEN [page EXCEPT !.loading = TRUE, !.error = Null,
                               !.editingBook = IF r.method = "PUT" THEN Null ELSE @]
             ELSE [page EXCEPT !.error = r.method]
  /\ Set(s, IdleReq)
  /\ UNCHANGED <<books, files, users, now, nextBook, nextFile, env>>

NextForm ==
  \/ fetchBooks
  \/ openAddForm
  \/ openEditForm
  \/ handleChange
  \/ Cancel
  \/ \E s \in Slots : handleSubmit(s)
  \/ \E s \in Slots : handleDeleteBook(s)
  \/ \E s \in Slots : Respond(s)
  \/ \E s \in Slots : Auth(s)
  \/ \E s \in Slots : Upload(s)
  \/ \E s \in Slots : PostHandler(s)
  \/ \E s \in Slots : StatsFind(s)
  \/ \E s \in Slots : StatsAggregate(s)
  \/ \E s \in Slots : StatsSave(s)
  \/ \E s \in Slots : PutFind(s)
  \/ \E s \in Slots : PutUpdate(s)
  \/ \E s \in Slots : DeleteHandler(s)

\* The dashboard of one user against the validating router.
SpecForm == InitForm /\ [][NextForm]_vars

(***************************************************************************)
(* Properties                                                              *)
(***************************************************************************)
Done(s) == req[s].pc = "done"
Quiet == \A s \in Slots : req[s].pc \in {"idle", "done"}
Alone(s) == \A t \in Slots \ {s} : req[t].pc = "idle"
Stepped(s) == req'[s] # req[s]
NotFound == <<Response(404, "Book not found", Undefined)>>

\* The request in slot s passed the gate and names a book of another user.
Foreign(s) ==
  /\ req[s].method \in {"GET", "PUT", "DELETE"}
  /\ req[s].user # NoUser
  /\ req[s].id \in DOMAIN books
  /\ books[req[s].id].user # Oid(req[s].user)

\* C1 as stated: a GET, PUT or DELETE by U on a book of another user V is
\* answered 404 'Book not found'.
C1_Original == \A s \in Slots : Done(s) /\ Foreign(s) => req[s].resp = NotFound

C1_Answer ==
  \A s \in Slots :
    Done(s) /\ Foreign(s) =>
      \/ req[s].resp = NotFound
      \/ /\ req[s].method = "PUT"
         /\ validate(req[s].body).error
         /\ Len(req[s].resp) = 1
         /\ req[s].resp[1].status = 400
         /\ req[s].resp[1].message = "Validation error"
         /\ req[s].resp[1].data.t = "details"

C1_Frame ==
  \A s \in Slots :
    Stepped(s) /\ Foreign(s) =>
      LET b == req[s].id IN
      /\ b \in DOMAIN books'
      /\ books'[b] = books[b]
      /\ HasUploadCover(books[b]) /\ books[b].coverImage.f \in files
           => books[b].coverImage.f \in files'

\* C1, amended: a GET, PUT or DELETE by U on a book B of another user V is
\* answered 404 'Book not found', or 400 'Validation error' when it is a PUT
\* whose body fails validation; the answer never carries B's data, and no
\* step of the request changes B's record or removes B's cover file.
C1_ForeignBookHidden == []C1_Answer /\ [][C1_Frame]_vars

\* A PUT with a new cover on another user's book, which has a cover of its
\* own, was answered 404.
C1_Witness ==
  \E s \in Slots :
    /\ Done(s) /\ Foreign(s)
    /\ req[s].method = "PUT" /\ req[s].upload
    /\ HasUploadCover(books[req[s].id])
    /\ books[req[s].id].coverImage.f \in files
    /\ req[s].resp = NotFound

Succeeded(s) ==
  /\ Done(s)
  /\ req[s].method \in {"POST", "PUT", "DELETE"}
  /\ Len(req[s].resp) = 1
  /\ req[s].resp[1].status \in {200, 201}

\* C2 as stated: once a create, update or delete of user U has succeeded and
\* nothing else is in flight, U's stats snapshot equals the per-status counts
\* of U's books.
C2_Original ==
  \A s \in Slots :
    Succeeded(s) /\ Alone(s) => users[req[s].user].stats = aggregate(req[s].user)

Persisted(b) == b \in DOMAIN books' /\ (b \notin DOMAIN books \/ books'[b] # books[b])

\* C3 as stated: every create and every update that persists a book with
\* status Reading leaves it with a dateStarted, and one that persists status
\* Read leaves it with a dateFinished and, if it has a dateStarted, a
\* readingDuration.
C3_Original ==
  [][\A b \in 1..MaxBooks :
       Persisted(b) =>
         /\ books'[b].status = S(Reading) => books'[b].dateStarted.t = "date"
         /\ books'[b].status = S(Read) =>
              /\ books'[b].dateFinished.t = "date"
              /\ books'[b].dateStarted.t = "date" => books'[b].readingDuration.t = "num"]_vars

\* C4: once dateStarted (dateFinished) of a book holds a value, no later
\* request through the validating router changes it.
C4_DatesSetOnce ==
  [][\A b \in DOMAIN books \cap DOMAIN books' :
       /\ books[b].dateStarted.t = "date" => books'[b].dateStarted = books[b].dateStarted
       /\ books[b].dateFinished.t = "date" => books'[b].dateFinished = books[b].dateFinished]_vars

\* An update whose body carried a different dateStarted has succeeded on a
\* book that was started earlier and has meanwhile left the Reading status.
C4_Witness ==
  \E s \in Slots :
    /\ Succeeded(s) /\ req[s].method = "PUT"
    /\ Has(req[s].body, "dateStarted")
    /\ req[s].id \in DOMAIN books
    /\ books[req[s].id].dateStarted.t = "date"
    /\ books[req[s].id].dateStarted # req[s].body.dateStarted
    /\ books[req[s].id].status # S(Reading)

\* C5 as stated: once every overlapping create and delete of U and its
\* follow-up has completed, U's stats snapshot equals the live counts.
C5_Original == Quiet => \A u \in DOMAIN users : users[u].stats = aggregate(u)

C6_Literal == \A b \in DOMAIN books : books[b].status \in {S(st) : st \in Statuses}

C6_Default ==
  \A s \in Slots :
    /\ Stepped(s) /\ req[s].method = "POST" /\ req[s].pc = "handler"
    /\ ~Has(req[s].body, "status")
    /\ nextBook \in DOMAIN books'
    => books'[nextBook].status = S(ToRead)

\* C6: every stored book has one of the three statuses, and a create whose
\* body omits status stores 'To Read'.
C6_StatusLiteral == []C6_Literal /\ [][C6_Default]_vars

\* A create without status has succeeded, and so has one with each status.
C6_Witness ==
  /\ \E s \in Slots :
       /\ Succeeded(s) /\ req[s].method = "POST" /\ ~Has(req[s].body, "status")
       /\ req[s].id \in DOMAIN books /\ books[req[s].id].status = S(ToRead)
  /\ \E b \in DOMAIN books : books[b].status = S(Read)

\* C7 as stated: every book is created with the caller as owner and the
\* owner of a book never changes, in both versions of the router.
C7_Original ==
  [][\A s \in Slots :
       Stepped(s) =>
         \A b \in DOMAIN books' :
           IF b \in DOMAIN books THEN books'[b].user = books[b].user
           ELSE books'[b].user = Oid(req[s].user)]_vars

Rejected(s) ==
  /\ Done(s)
  /\ Len(req[s].resp) = 1 /\ req[s].resp[1].status = 401
  /\ req[s].nextCalls = 0
  /\ req[s].user = NoUser

Admitted(s) ==
  /\ req[s].user \in DOMAIN users
  /\ req[s].nextCalls = 1
  /\ \A i \in 1..Len(req[s].resp) : req[s].resp[i].status # 401

WellFormed(hdr) ==
  /\ hdr.present /\ hdr.prefix = "Bearer "
  /\ hdr.token.kind = "valid" /\ hdr.token.userId \in DOMAIN users

\* C8: for a request to a private route the required gate either sends one
\* 401 and never calls next, or attaches the user and calls next once; next
\* runs only for a well-formed token of a stored user.
C8_GateDichotomy ==
  \A s \in Slots :
    req[s].method \in {"GET", "POST", "PUT", "DELETE"} /\ req[s].pc \notin {"idle", "auth"} =>
      /\ Rejected(s) \/ Admitted(s)
      /\ ~(Rejected(s) /\ Admitted(s))
      /\ Admitted(s) => WellFormed(req[s].hdr) /\ req[s].user = req[s].hdr.token.userId
      /\ ~WellFormed(req[s].hdr) => Rejected(s)

\* One request was rejected for a token whose user is not stored while
\* another was admitted and handled.
C8_Witness ==
  \E s, t \in Slots :
    /\ Rejected(s) /\ req[s].hdr = Bearer(GhostId)
    /\ Done(t) /\ Admitted(t) /\ req[t].method = "GET"

\* C9 as stated: behind the admin gate a request that fails the required
\* gate gets that gate's 401 as its only response, a non-admin user gets 403,
\* no request gets more than one response, and the downstream handler runs
\* only for an attached administrator.
C9_Original ==
  \A s \in Slots :
    Done(s) /\ req[s].method = "ADMIN" =>
      /\ Len(req[s].resp) <= 1
      /\ ~WellFormed(req[s].hdr) =>
           Len(req[s].resp) = 1 /\ req[s].resp[1].status = 401
      /\ req[s].user # NoUser /\ ~isAdmin(req[s].user) =>
           Len(req[s].resp) = 1 /\ req[s].resp[1].status = 403
      /\ req[s].nextCalls > 0 => req[s].user # NoUser /\ isAdmin(req[s].user)

NumberOf(x) == IF x.t = "num" THEN x.n ELSE ParseDigits(x.s, 0)

\* The failures the claim lists, read off the submitted body.
C10_Malformed(body) ==
  \/ ~Has(body, "title") \/ ~Has(body, "author")
  \/ Has(body, "status") /\ body.status.s \notin Statuses
  \/ Has(body, "pageCount") /\ NumberOf(body.pageCount) \notin 1..PageCountMax
  \/ Has(body, "rating") /\ NumberOf(body.rating) \notin 1..RatingMax
  \/ Has(body, "tags") /\ Len(body.tags.a) > TagsMax
  \/ Has(body, "tags") /\ \E i \in 1..Len(body.tags.a) : Len(Trim(body.tags.a[i].s)) > TagMax

C10_Before ==
  \A s \in Slots :
    Stepped(s) /\ req[s].pc \in {"auth", "upload"} => books' = books /\ users' = users

C10_Step ==
  \A s \in Slots :
    /\ Stepped(s) /\ req[s].pc = "handler" /\ req[s].method \in {"POST", "PUT"}
    /\ C10_Malformed(req[s].body) \/ validate(req[s].body).error
    => /\ books' = books
       /\ users' = users
       /\ req'[s].pc = "done"
       /\ Len(req'[s].resp) = 1
       /\ req'[s].resp[1].status = 400
       /\ req'[s].resp[1].data.t = "details"
       /\ req'[s].resp[1].data.list # <<>>

\* C10: a POST or PUT whose body fails validation is answered 400 with a
\* list of messages, and the book records and the stats snapshots are as
\* before the request.
C10_InvalidBodyNoMutation == [][C10_Before /\ C10_Step]_vars

\* An update of an existing book of the caller, with a cover file and more
\* than ten tags, was answered 400.
C10_Witness ==
  \E s \in Slots :
    /\ Done(s) /\ req[s].method = "PUT" /\ req[s].upload
    /\ Has(req[s].body, "tags") /\ Len(req[s].body.tags.a) > TagsMax
    /\ findOne(req[s].id, req[s].user) # Null
    /\ req[s].resp[1].status = 400

Failed(s) ==
  /\ Done(s)
  /\ Len(req[s].resp) = 1
  /\ req[s].resp[1].status \notin {200, 201}

\* C11: when a POST or PUT that carried an accepted cover file is answered
\* with a failure (validation 400, not found 404, persistence validation
\* 400, server error 500), the file it uploaded is no longer in the uploads
\* directory.
C11_FailureRemovesUpload ==
  \A s \in Slots :
    Failed(s) /\ req[s].method \in {"POST", "PUT"} /\ req[s].upload
      => req[s].file \notin files

\* An update with a cover file, whose normalization succeeded, was refused
\* by the validators of the model, and a file of an earlier request is
\* still stored.
C11_Witness ==
  \E s \in Slots :
    /\ Failed(s) /\ req[s].method = "PUT" /\ req[s].upload
    /\ req[s].fault = "none"
    /\ req[s].resp[1].status = 400 /\ req[s].resp[1].data.t = "errors"
    /\ req[s].file \notin files
    /\ files # {}

Deleting(s) == req[s].router = "books" /\ req[s].method = "DELETE"

C12_Answer ==
  \A s \in Slots :
    Succeeded(s) /\ Deleting(s) =>
      /\ req[s].id \notin DOMAIN books
      /\ HasUploadCover(req[s].doc) => req[s].doc.coverImage.f \notin files
      /\ req[s].resp[1].data =
           [t |-> "deleted", id |-> req[s].id, title |-> req[s].doc.title,
            author |-> req[s].doc.author]

C12_Step ==
  \A s \in Slots :
    Stepped(s) /\ Deleting(s) =>
      /\ \A b \in DOMAIN books \ {req[s].id} : b \in DOMAIN books' /\ books'[b] = books[b]
      /\ DOMAIN books' \subseteq DOMAIN books
      /\ req[s].id \in DOMAIN books \ DOMAIN books' =>
           /\ books[req[s].id].user = Oid(req[s].user)
           /\ req'[s].doc = books[req[s].id]
      /\ req[s].id \in DOMAIN books' => books'[req[s].id] = books[req[s].id]
      /\ files' \subseteq files
      /\ \A f \in files \ files' :
           HasUploadCover(req[s].doc) /\ req[s].doc.coverImage.f = f

\* C12: a successful DELETE by the owner has removed that book's record and
\* its cover file and answers with the removed book's id, title and author;
\* no step of the request changes another book record or removes another
\* file.
C12_DeleteFrame == []C12_Answer /\ [][C12_Step]_vars

\* A book with a cover was deleted by its owner while another user's book
\* with a cover is stored.
C12_Witness ==
  \E s \in Slots :
    /\ Succeeded(s) /\ Deleting(s)
    /\ HasUploadCover(req[s].doc)
    /\ \E b \in DOMAIN books :
         /\ books[b].user # Oid(req[s].user)
         /\ HasUploadCover(books[b]) /\ books[b].coverImage.f \in files

Dispatched(s) == req[s].router = "dispatch" /\ req[s].pc # "idle"
Answered(s, status) == Len(req[s].resp) = 1 /\ req[s].resp[1].status = status

\* C13 as stated: an authenticated GET of /stats, /genres or /authors is
\* handled by the route of that name and answered with the aggregate, never
\* by the single-book route.
C13_Original ==
  \A s \in Slots :
    /\ Dispatched(s) /\ Done(s) /\ req[s].user # NoUser
    /\ req[s].seg \in {Lit("stats"), Lit("genres"), Lit("authors")}
    => /\ req[s].route = "/" \o req[s].seg.s
       /\ Answered(s, 200)

Searching(s) == Dispatched(s) /\ req[s].seg = Lit("search-external")

C14_Answer ==
  \A s \in Slots :
    Searching(s) =>
      /\ req[s].pc # "auth" /\ req[s].nextCalls = 0 /\ req[s].user = NoUser
      /\ req[s].lookups <= 1
      /\ Done(s) =>
           IF req[s].query = ""
           THEN req[s].resp = <<Response(400, "Query is required", Undefined)>>
                /\ req[s].lookups = 0
           ELSE IF ~env.apikey
           THEN req[s].resp = <<Response(500, "Google Books API not configured", Undefined)>>
                /\ req[s].lookups = 0
           ELSE /\ req[s].lookups = 1
                /\ Answered(s, 200) \/ Answered(s, 500)

C14_Frame ==
  \A s \in Slots :
    Stepped(s) /\ (Searching(s) \/ req'[s].seg = Lit("search-external")) =>
      books' = books /\ users' = users /\ files' = files

Refused(s) == req[s].method \in {"POST", "PUT"} /\ req[s].kind # GoodFile

C15_Answer ==
  \A s \in Slots :
    Refused(s) =>
      /\ Done(s) /\ ~req[s].upload
      /\ req[s].file \notin files
      /\ req[s].resp =
           IF ~req[s].kind.image
           THEN <<Response(400, "Only image files (JPEG, PNG, GIF, WebP) are allowed.", Undefined)>>
           ELSE <<Response(400, "File too large. Maximum size is 5MB.", Undefined)>>

C15_Frame ==
  \A s \in Slots :
    Stepped(s) /\ (Refused(s) \/ req'[s].kind # GoodFile) =>
      /\ books' = books /\ users' = users /\ files' = files
      /\ req'[s].pc \in {"done", "idle"}

C16_Original ==
  [][\A s \in Slots :
       /\ Stepped(s) /\ req[s].pc = "optimize" /\ req'[s].fault # "none"
         => req'[s].pc = "handler" /\ req[s].file \in files'
       /\ Stepped(s) /\ req[s].pc = "handler" /\ req[s].method = "POST"
          /\ req[s].upload /\ req[s].fault # "none" /\ nextBook \in DOMAIN books'
         => books'[nextBook].coverImage = Cover(req[s].file) /\ req[s].file \in files']_vars

\* The request in slot s is a PUT by the owner on a stored book, with a body
\* that the request validation and the model's validators accept; it has
\* passed the ownership lookup.
Editing(s) ==
  /\ req[s].router = "books" /\ req[s].method = "PUT"
  /\ req[s].existing # Undefined
  /\ DocValid(SetOf(req[s]))

C17_BothSucceed ==
  \A s \in Slots :
    Editing(s) /\ Done(s) =>
      /\ Answered(s, 200)
      /\ req[s].resp[1].message = "Book updated successfully"

C17_Serial ==
  \A s, t \in Slots :
    /\ s # t /\ Editing(s) /\ Editing(t) /\ Done(s) /\ Done(t)
    /\ req[s].id = req[t].id
    /\ req[s].existing = req[t].existing
    => books[req[s].id] \in
         {Merge(Merge(req[s].existing, SetOf(req[s])), SetOf(req[t])),
          Merge(Merge(req[s].existing, SetOf(req[t])), SetOf(req[s]))}

\* C17: two overlapping PUTs by the owner on the same stored book, both of
\* which looked the book up before either wrote, are both answered 200
\* 'Book updated successfully', and the stored record is then the one that
\* results from applying the two updates to the looked-up record one after
\* the other, in one of the two orders.
C17_LastWriteWins == C17_BothSucceed /\ C17_Serial

\* Two overlapping updates, one setting the page count and one the rating,
\* have both succeeded; the record carries both.
C17_Witness ==
  \E s, t \in Slots :
    /\ s # t /\ Editing(s) /\ Editing(t) /\ Succeeded(s) /\ Succeeded(t)
    /\ req[s].id = req[t].id
    /\ req[s].existing = req[t].existing
    /\ req[s].body = BodyPages /\ req[t].body = BodyStars
    /\ books[req[s].id].pageCount = N(300)
    /\ books[req[s].id].rating = N(5)
    /\ books[req[s].id].title = S(Emma)

BothDates(doc) == doc.dateStarted.t = "date" /\ doc.dateFinished.t = "date"

C18_Ceiling ==
  \A b \in DOMAIN books :
    BothDates(books[b]) =>
      /\ books[b].readingDuration =
           N(CeilDiv(books[b].dateFinished.ms - books[b].dateStarted.ms, MsPerDay))
      /\ books[b].readingDuration.n >= 0

C18_Kept ==
  \A b \in DOMAIN books \cap DOMAIN books' :
    BothDates(books[b]) /\ books[b].readingDuration.t = "num" =>
      books'[b].readingDuration = books[b].readingDuration

\* C18 as stated: every book with both dates set has a readingDuration
\* equal to the ceiling of (dateFinished - dateStarted) in days, which is
\* never negative and is not changed by a later write of the book.
C18_Original == []C18_Ceiling /\ [][C18_Kept]_vars

\* The stats hook of the request in slot s threw or found no user.
HookFailed(s) == req[s].hook \in {"threw", "nouser"}

C19_Answer ==
  \A s \in Slots :
    Done(s) /\ req[s].router = "books" /\ HookFailed(s) =>
      IF req[s].method = "POST"
      THEN req[s].resp = <<Response(201, "Book added successfully", req[s].doc)>>
      ELSE /\ Answered(s, 200)
           /\ req[s].resp[1].message = "Book deleted successfully"
           /\ req[s].id \notin DOMAIN books

C19_Hook ==
  \A s \in Slots :
    Stepped(s) /\ req[s].pc \in {"stats_find", "stats_agg", "stats_save"} =>
      /\ books' = books
      /\ req'[s].pc \in {"stats_agg", "stats_save", "done"}
      /\ req'[s].pc = "done" => Succeeded(s)'

\* C19: when the stats recomputation after a create or a delete throws, or
\* finds no user, the request is answered 201 (200) all the same, and no
\* step of the hook changes a book record: the created book stays stored
\* and the deleted one stays removed.
C19_HookFailureSwallowed == []C19_Answer /\ [][C19_Hook]_vars

\* A create whose recomputation threw was answered 201, and a delete whose
\* recomputation found no user was answered 200.
C19_Witness ==
  \E s, t \in Slots :
    /\ Done(s) /\ req[s].method = "POST" /\ req[s].hook = "threw"
    /\ Answered(s, 201)
    /\ Done(t) /\ req[t].method = "DELETE" /\ req[t].hook = "nouser"
    /\ Answered(t, 200)

Identity(doc) == <<doc.username, doc.email, doc.password>>

C20_StatsOnly ==
  \A s \in Slots :
    Stepped(s) =>
      \A u \in DOMAIN users :
        /\ u \in DOMAIN users'
        /\ Identity(users'[u]) = Identity(users[u])
        /\ users'[u] # users[u] =>
             req[s].pc = "stats_save" /\ req[s].doc.user = Oid(u)

C20_Rehash ==
  \A u \in DOMAIN users \cap DOMAIN users' :
    /\ users'[u].username = users[u].username /\ users'[u].email = users[u].email
    /\ users'[u].password # users[u].password =>
         /\ \A s \in Slots : ~Stepped(s)
         /\ \E salt \in Salts : users'[u].password = Hash(Plain("secret2"), salt)

\* C20: a save of a user rewrites the stored hash only when the password
\* was assigned a new value, and then with the hash of that value; the
\* stats recomputation changes nothing of a user but the stats counters,
\* and only those of the book's owner.
C20_PasswordKept == [][C20_StatsOnly /\ C20_Rehash]_vars

\* A recomputation that had loaded the user before the password was changed
\* has saved new counters, and the changed hash is still stored.
C20_Witness ==
  \E s \in Slots :
    /\ Done(s) /\ req[s].hook = "saved"
    /\ req[s].user \in DOMAIN users
    /\ req[s].udoc.password # users[req[s].user].password
    /\ users[req[s].user].password.of = Plain("secret2")
    /\ users[req[s].user].stats = req[s].agg
    /\ req[s].agg # req[s].udoc.stats

\* Every stored book with an uploaded cover names a file of the directory.
CoversExist ==
  \A b \in DOMAIN books :
    HasUploadCover(books[b]) => books[b].coverImage.f \in files

\* C21 as stated: with no request in flight, each book whose coverImage
\* starts with '/uploads/' names a file that exists in the uploads directory,
\* also after a PUT with a new cover file that failed at the persistence
\* step.
C21_Original == Quiet => CoversExist

\* C22 as stated: a PUT answers 'Book updated successfully' only if its
\* update matched a book record; when a concurrent DELETE removed the book
\* after the ownership lookup, the PUT answers 404, never 200 with a null
\* book.
C22_Original ==
  [][\A s \in Slots :
       Stepped(s) /\ req[s].pc = "put_update" =>
         IF findOne(req[s].id, req[s].user) = Null
         THEN req'[s].resp = NotFound
         ELSE req'[s].resp[1].status = 200 => req'[s].resp[1].data = books'[req[s].id]]_vars

\* Every file of the uploads directory is the cover of some stored book.
NoOrphans ==
  \A f \in files : \E b \in DOMAIN books : books[b].coverImage = Cover(f)

\* C23 as stated: once every PUT with a new cover file and every DELETE on
\* the same book has completed, in whichever order their steps interleaved,
\* each file of the uploads directory is referenced by a stored book.
C23_Original == Quiet => NoOrphans

\* The paths a PUT may write: the keys of its body and, with a file, the
\* cover path.
Supplied(r) == DOMAIN r.body \cup (IF r.upload THEN {"coverImage"} ELSE {})

\* C24 as stated: a successful PUT changes only the fields supplied in the
\* request body (and the cover path when a file is attached); a PUT whose
\* body omits status leaves the stored status unchanged.
C24_Original ==
  [][\A s \in Slots :
       /\ Stepped(s) /\ req[s].pc = "put_update"
       /\ req'[s].resp[1].status = 200 /\ req[s].id \in DOMAIN books
       => \A k \in DOMAIN books[req[s].id] \ Supplied(req[s]) :
            books'[req[s].id][k] = books[req[s].id][k]]_vars

\* The four counters are natural numbers and the total is the sum of the
\* three others.
Balanced(stats) ==
  /\ \A k \in StatKeys : stats[k] \in Nat
  /\ stats.totalBooks = stats.booksRead + stats.currentlyReading + stats.toRead

\* C25 as stated: in every persisted state of a user record the total is
\* the sum of the three status counters and every counter is a non-negative
\* integer, after any sequence of creates, updates, deletes and
\* recomputations.
C25_Original == \A u \in DOMAIN users : Balanced(users[u].stats)

\* C26 as stated: whenever the dialog is open for editing a book its
\* untouched fields hold that book's values, and whenever it is open for
\* adding a book they hold the blank defaults, whatever was opened, edited
\* or submitted before.
C26_Original ==
  page.openForm /\ ~page.loading /\ ~page.touched =>
    page.formData = useState(page.editingBook)

\* C27 as stated: every submission of the book form for a new book, with a
\* title and an author filled in and one of the three statuses, is accepted
\* by the validation of POST /books and creates a book, also when the
\* optional fields are left at their empty defaults.
C27_Original ==
  \A s \in Slots :
    /\ Done(s) /\ req[s].method = "POST" /\ req[s].user # NoUser
    /\ Trim(req[s].body.title.s) # <<>> /\ Trim(req[s].body.author.s) # <<>>
    /\ req[s].body.status.s \in Statuses
    => req[s].resp[1].status = 201 /\ req[s].id \in DOMAIN books

====
